---- MODULE Spec2Model ----
(***************************************************************************)
(* Model of the task scheduler of clash-nyanpasu,                          *)
(* backend/tauri/src/tasks/task.rs: the task registry (TaskList), the      *)
(* input validation and id assignment of TaskManager::add_task, the        *)
(* wrapped callbacks wrap_job / wrap_async_job that the delay_timer engine *)
(* fires, and TaskListOps::set_task_state.                                 *)
(*                                                                         *)
(* The delay_timer engine is a third-party crate.  It is modelled by what  *)
(* task.rs asks of it: a registration per successful timer.add_task, one   *)
(* firing for a once-frequency, repeated firings otherwise, and at most    *)
(* maximum_parallel_runnable_num callbacks of ONE registration in flight   *)
(* (the setting is made on the per-task TimerTaskBuilder).                 *)
(***************************************************************************)
EXTENDS Integers, Sequences, FiniteSets, TLC

VARIABLES
    list,       \* TaskManager.list: the registry, a sequence of Task records
    timer,      \* registrations held by the DelayTimer, in registration order
    inflight,   \* per registration: callbacks between set Running and set Idle
    timerLock,  \* TaskManager.timer mutex: "free" or "adder"
    listLock,   \* TaskManager.list RwLock: "free" or "adder" (write guard)
    pc,         \* position of the add_task or cancel call in progress
    cur,        \* add_task locals: <<task, executor>> while a call is active
    ret,        \* result of the last finished API call
    target      \* task_id of the set_task_state(.., Cancelled, ..) call in
                \* progress, 0 when there is none

vars == <<list, timer, inflight, timerLock, listLock, pc, cur, ret, target>>

----------------------------------------------------------------------------
(* Bounds of the model *)

MaxTasks == 2       \* registry length explored by Spec
SoloTasks == 1      \* registry length explored by SpecSolo
MaxInst == 2        \* callbacks of one registration in flight explored by Spec
MaxId == 2          \* the id a caller supplies: 0 (auto id) or MaxId

(* Program constants *)

MaxParallel == 5    \* builder.set_maximum_parallel_runnable_num(5)
Now == 1            \* Utc::now().timestamp(): one instant stands for all

----------------------------------------------------------------------------
(* Data types *)

None == <<>>
Some(x) == <<x>>

TaskStates == {"Cancelled", "Idle", "Running"}

ResOk == [tag |-> "Ok", msg |-> ""]
ResErr(m) == [tag |-> "Err", msg |-> m]

\* Duration values are in milliseconds
Once(d) == [kind |-> "Once", dur |-> d, cron |-> ""]
Interval(d) == [kind |-> "Interval", dur |-> d, cron |-> ""]
Cron(s) == [kind |-> "Cron", dur |-> 0, cron |-> s]

\* Duration::as_secs: whole seconds, the sub-second part is dropped
as_secs(d) == d \div 1000

\* an executor: Sync(job) or Async(job); a job's execute() returns Ok(())
\* or Err(e) with e.to_string() = msg
Executor(k, m) == [kind |-> k, err |-> m]
DefaultExecutor == Executor("Sync", "")

\* Task::default() with the fields a caller sets
TaskInput(i, n, s, c) ==
    [id |-> i, name |-> n, schedule |-> s, state |-> "Idle", last_run |-> None,
     next_run |-> None, executor |-> DefaultExecutor, created_at |-> c]

----------------------------------------------------------------------------
(* Inputs explored *)

Durations == {0, 100, 1000}
CronStrings == {"", "every day", "0 0 3 * * * *"}
Schedules ==
    {Once(d) : d \in Durations} \cup {Interval(d) : d \in Durations}
        \cup {Cron(s) : s \in CronStrings}
\* Tasks named "update" with every schedule, and one task with no name.
\* A new task leaves id and created_at at 0; a caller that names the id
\* also supplies created_at.
TaskInputs ==
    {TaskInput(i, "update", s, IF i = 0 THEN 0 ELSE Now) :
        i \in {0, MaxId}, s \in Schedules} \cup {TaskInput(0, "", Interval(1000), 0)}
Executors == {Executor("Sync", ""), Executor("Async", "boom")}

\* Inputs of the specification that registers many tasks at once
CapTasks == MaxParallel + 1
CapTaskInputs == {TaskInput(0, "sleep", Interval(1000), 0)}
CapExecutors == {Executor("Sync", "")}

\* the add_task calls explored by SpecFrame
FrameTaskInputs ==
    {TaskInput(0, "update", Interval(1000), 0),
     TaskInput(MaxId, "update", Once(1000), Now)}

\* the add_task calls explored by SpecLock
LockTaskInputs ==
    {TaskInput(0, "update", Interval(1000), 0),
     TaskInput(0, "update", Cron("every day"), 0),
     TaskInput(0, "", Interval(1000), 0)}

----------------------------------------------------------------------------
(* Pure functions *)

Min(a, b) == IF a < b THEN a ELSE b

\* check_task_input! with the Once test written as < 0: a zero delay passes
check_task_input_zero_once(task) ==
    IF task.name = "" THEN "task name is empty"
    ELSE IF task.schedule.kind = "Once" /\ as_secs(task.schedule.dur) < 0
        THEN "task interval must be greater than 0"
    ELSE IF task.schedule.kind = "Interval" /\ as_secs(task.schedule.dur) <= 0
        THEN "task interval must be greater than 0"
    ELSE IF task.schedule.kind = "Cron" /\ task.schedule.cron = ""
        THEN "task cron is empty"
    ELSE ""

\* check_task_input!: "" when the input passes, else the error message
check_task_input(task) ==
    IF task.name = "" THEN "task name is empty"
    ELSE IF task.schedule.kind = "Once" /\ as_secs(task.schedule.dur) <= 0
        THEN "task interval must be greater than 0"
    ELSE IF task.schedule.kind = "Interval" /\ as_secs(task.schedule.dur) <= 0
        THEN "task interval must be greater than 0"
    ELSE IF task.schedule.kind = "Cron" /\ task.schedule.cron = ""
        THEN "task cron is empty"
    ELSE ""

\* build_task: the task with its id and created_at filled in, and the
\* TimerTaskBuilder settings made for it
build_task(task, len) ==
    LET id == IF task.id = 0 THEN len + 1 ELSE task.id
        created == IF task.created_at = 0 THEN Now ELSE task.created_at
        t == [task EXCEPT !.id = id, !.created_at = created]
        freq == IF t.schedule.kind = "Cron"
                  THEN [mode |-> "Repeated", secs |-> 0, cron |-> t.schedule.cron]
                ELSE IF t.schedule.kind = "Interval"
                  THEN [mode |-> "Repeated", secs |-> as_secs(t.schedule.dur), cron |-> ""]
                ELSE [mode |-> "Once", secs |-> as_secs(t.schedule.dur), cron |-> ""]
    IN  [task |-> t,
         builder |-> [task_id |-> id, frequency |-> freq,
                      maximum_parallel_runnable_num |-> MaxParallel]]

\* builder.spawn_routine / spawn_async_routine: Err when the frequency of
\* the builder cannot be analysed (a cron string that does not parse)
spawn_routine(builder) ==
    IF builder.frequency.cron # "" /\ builder.frequency.cron # "0 0 3 * * * *"
        THEN "Err"
    ELSE IF builder.frequency.cron = "" /\ builder.frequency.secs = 0 THEN "Err"
    ELSE "Ok"

\* list.iter_mut().find(|t| t.id == task_id): index of the first task with
\* the id, 0 when there is none
RECURSIVE FindFrom(_, _, _)
FindFrom(l, id, i) ==
    IF i > Len(l) THEN 0
    ELSE IF l[i].id = id THEN i
    ELSE FindFrom(l, id, i + 1)

\* the lookup by position in the list instead of by id
FindTask_by_position(l, id) == IF id \in 1..Len(l) THEN id ELSE 0

FindTask(l, id) == FindFrom(l, id, 1)

\* the Idle arm records the result whatever the state of the task is
set_task_state_always_records(l, task_id, state, result) ==
    LET i == FindTask(l, task_id) IN
    IF i = 0 THEN [list |-> l, res |-> "NotFound"]
    ELSE IF state = "Running"
        THEN [list |-> [l EXCEPT ![i].state = "Running"], res |-> "Ok"]
    ELSE IF state = "Idle"
        THEN IF result = None
               THEN [list |-> l, res |-> "ResultIsNone"]
             ELSE [list |-> [l EXCEPT ![i].last_run = Some(<<Now, result[1]>>),
                                      ![i].state = "Idle"],
                   res |-> "Ok"]
    ELSE [list |-> [l EXCEPT ![i].state = "Cancelled"], res |-> "Ok"]

\* TaskListOps::set_task_state: the list after the call and what it returns
set_task_state(l, task_id, state, result) ==
    LET i == FindTask(l, task_id) IN
    IF i = 0 THEN [list |-> l, res |-> "NotFound"]
    ELSE IF state = "Running"
        THEN [list |-> [l EXCEPT ![i].state = "Running"], res |-> "Ok"]
    ELSE IF state = "Idle"
        THEN IF l[i].state = "Running"
               THEN IF result = None
                      THEN [list |-> l, res |-> "ResultIsNone"]
                    ELSE [list |-> [l EXCEPT ![i].last_run = Some(<<Now, result[1]>>),
                                             ![i].state = "Idle"],
                          res |-> "Ok"]
             ELSE [list |-> [l EXCEPT ![i].state = "Idle"], res |-> "Ok"]
    ELSE [list |-> [l EXCEPT ![i].state = "Cancelled"], res |-> "Ok"]

\* what the wrapper makes of the outcome of job.execute()
RunResult(executor) ==
    IF executor.err = "" THEN ResOk ELSE ResErr(executor.err)

----------------------------------------------------------------------------
(* State machine *)

NoCall == [task |-> TaskInput(0, "", Once(0), 0), executor |-> DefaultExecutor,
           builder |-> build_task(TaskInput(0, "", Once(0), 0), 0).builder]
NoRet == [op |-> "none", val |-> ""]

Init ==
    /\ list = <<>>
    /\ timer = <<>>
    /\ inflight = <<>>
    /\ timerLock = "free"
    /\ listLock = "free"
    /\ pc = "idle"
    /\ cur = NoCall
    /\ ret = NoRet
    /\ target = 0

\* a caller enters add_task(task, executor), where the executor shows
\* only when add_task first reads it; once the registry holds
\* maxTasks tasks only calls that fail, at validation or at the build of
\* the timer task, are explored
AddTaskCall(inputs, maxTasks) ==
    /\ pc = "idle"
    /\ \E task \in inputs :
          /\ \/ Len(list) < maxTasks
             \/ check_task_input(task) # ""
             \/ spawn_routine(build_task(task, Len(list)).builder) = "Err"
          /\ cur' = [NoCall EXCEPT !.task = task]
    /\ pc' = "check"
    /\ ret' = [op |-> "add", val |-> "pending"]
    /\ UNCHANGED <<list, timer, inflight, timerLock, listLock, target>>

\* the read guard taken for build_task is still alive when add_task asks
\* for the write lock
AddTaskCheck_keeps_read(execs) ==
    /\ pc = "check"
    /\ IF check_task_input(cur.task) # ""
         THEN /\ pc' = "idle"
              /\ ret' = [op |-> "add", val |-> check_task_input(cur.task)]
              /\ cur' = NoCall
              /\ listLock' = listLock
         ELSE /\ listLock = "free"
              /\ listLock' = "reader"
              /\ \E executor \in execs :
                    cur' = [task |-> [build_task(cur.task, Len(list)).task
                                        EXCEPT !.executor = executor],
                            executor |-> executor,
                            builder |-> build_task(cur.task, Len(list)).builder]
              /\ pc' = "built"
              /\ ret' = ret
    /\ UNCHANGED <<list, timer, inflight, timerLock, target>>

\* check_task_input!(task), then build_task under the read lock, then
\* task.executor = executor.clone()
AddTaskCheck(execs) ==
    /\ pc = "check"
    /\ IF check_task_input(cur.task) # ""
         THEN /\ pc' = "idle"
              /\ ret' = [op |-> "add", val |-> check_task_input(cur.task)]
              /\ cur' = NoCall
         ELSE /\ listLock = "free"
              /\ \E executor \in execs :
                    cur' = [task |-> [build_task(cur.task, Len(list)).task
                                        EXCEPT !.executor = executor],
                            executor |-> executor,
                            builder |-> build_task(cur.task, Len(list)).builder]
              /\ pc' = "built"
              /\ ret' = ret
    /\ UNCHANGED <<list, timer, inflight, timerLock, listLock, target>>

\* let timer = self.timer.lock().unwrap()
AddTaskLockTimer ==
    /\ pc = "built"
    /\ timerLock = "free"
    /\ timerLock' = "adder"
    /\ pc' = "timerLocked"
    /\ UNCHANGED <<list, timer, inflight, listLock, cur, ret, target>>

\* the write lock of the list is not taken ahead of timer.add_task
AddTaskLockList_late ==
    /\ pc = "timerLocked"
    /\ pc' = "listLocked"
    /\ UNCHANGED <<list, timer, inflight, timerLock, listLock, cur, ret, target>>

\* let mut list = self.list.write().unwrap()
AddTaskLockList ==
    /\ pc = "timerLocked"
    /\ listLock = "free"
    /\ listLock' = "adder"
    /\ pc' = "listLocked"
    /\ UNCHANGED <<list, timer, inflight, timerLock, cur, ret, target>>

\* list.push(task) ahead of timer.add_task: an Err of the build or of the
\* timer returns with the task left in the list
AddTaskRegister_push_first ==
    /\ pc = "listLocked"
    /\ LET b == cur.builder IN
       \/ /\ ret' = [op |-> "add",
                     val |-> IF spawn_routine(b) = "Err"
                               THEN "failed to build a task"
                             ELSE "failed to add a task to scheduler"]
          /\ list' = Append(list, cur.task)
          /\ pc' = "idle"
          /\ cur' = NoCall
          /\ timerLock' = "free"
          /\ listLock' = "free"
          /\ UNCHANGED <<timer, inflight>>
       \/ /\ spawn_routine(b) = "Ok"
          /\ timer' = Append(timer, [task_id |-> b.task_id,
                                     once |-> b.frequency.mode = "Once",
                                     armed |-> TRUE,
                                     executor |-> cur.executor])
          /\ inflight' = Append(inflight, 0)
          /\ pc' = "registered"
          /\ UNCHANGED <<list, timerLock, listLock, cur, ret>>
    /\ UNCHANGED target

\* timer.add_task(timer_task.context(..)?).context(..)?: an Err of the
\* build or of the timer returns from add_task and drops both guards
AddTaskRegister ==
    /\ pc = "listLocked"
    /\ LET b == cur.builder IN
       \/ /\ spawn_routine(b) = "Err"
          /\ ret' = [op |-> "add", val |-> "failed to build a task"]
          /\ pc' = "idle"
          /\ cur' = NoCall
          /\ timerLock' = "free"
          /\ listLock' = "free"
          /\ UNCHANGED <<timer, inflight>>
       \/ /\ spawn_routine(b) = "Ok"
          /\ ret' = [op |-> "add", val |-> "failed to add a task to scheduler"]
          /\ pc' = "idle"
          /\ cur' = NoCall
          /\ timerLock' = "free"
          /\ listLock' = "free"
          /\ UNCHANGED <<timer, inflight>>
       \/ /\ spawn_routine(b) = "Ok"
          /\ timer' = Append(timer, [task_id |-> b.task_id,
                                     once |-> b.frequency.mode = "Once",
                                     armed |-> TRUE,
                                     executor |-> cur.executor])
          /\ inflight' = Append(inflight, 0)
          /\ pc' = "registered"
          /\ UNCHANGED <<timerLock, listLock, cur, ret>>
    /\ UNCHANGED <<list, target>>

\* list.push(task); Ok(()) and both guards are dropped
AddTaskPush ==
    /\ pc = "registered"
    /\ list' = Append(list, cur.task)
    /\ ret' = [op |-> "add", val |-> "Ok"]
    /\ pc' = "idle"
    /\ cur' = NoCall
    /\ timerLock' = "free"
    /\ listLock' = "free"
    /\ UNCHANGED <<timer, inflight, target>>

\* the callback keeps the write guard of the list while the job executes
FireStart_holding(r, maxInst) ==
    /\ timer[r].armed
    /\ inflight[r] < Min(MaxParallel, maxInst)
    /\ listLock = "free"
    /\ listLock' = "callback"
    /\ list' = set_task_state(list, timer[r].task_id, "Running", None).list
    /\ inflight' = [inflight EXCEPT ![r] = @ + 1]
    /\ timer' = [timer EXCEPT ![r].armed = ~timer[r].once]
    /\ UNCHANGED <<timerLock, pc, cur, ret, target>>

\* the timer fires registration r: the wrapped callback starts and does
\* list.set_task_state(task_id, TaskState::Running, None)
FireStart(r, maxInst) ==
    /\ timer[r].armed
    /\ inflight[r] < Min(MaxParallel, maxInst)
    /\ listLock = "free"
    /\ list' = set_task_state(list, timer[r].task_id, "Running", None).list
    /\ inflight' = [inflight EXCEPT ![r] = @ + 1]
    /\ timer' = [timer EXCEPT ![r].armed = ~timer[r].once]
    /\ UNCHANGED <<timerLock, listLock, pc, cur, ret, target>>

\* execute() of a callback of registration r returns and the wrapper does
\* list.set_task_state(task_id, TaskState::Idle, Some(result))
FireFinish(r) ==
    /\ inflight[r] > 0
    /\ listLock = "free"
    /\ list' = set_task_state(list, timer[r].task_id, "Idle",
                              Some(RunResult(timer[r].executor))).list
    /\ inflight' = [inflight EXCEPT ![r] = @ - 1]
    /\ UNCHANGED <<timer, timerLock, listLock, pc, cur, ret, target>>

\* a caller enters list.set_task_state(id, TaskState::Cancelled, None)
CancelCall(id) ==
    /\ pc = "idle"
    /\ pc' = "cancel"
    /\ target' = id
    /\ ret' = [op |-> "cancel", val |-> "pending"]
    /\ UNCHANGED <<list, timer, inflight, timerLock, listLock, cur>>

\* the call takes the tasks with the id out of the list
Cancel_removes ==
    /\ pc = "cancel"
    /\ listLock = "free"
    /\ list' = SelectSeq(list, LAMBDA t : t.id # target)
    /\ ret' = [op |-> "cancel", val |-> set_task_state(list, target, "Cancelled", None).res]
    /\ pc' = "idle"
    /\ target' = 0
    /\ UNCHANGED <<timer, inflight, timerLock, listLock, cur>>

\* the call takes the write lock, sets the state and returns
Cancel ==
    /\ pc = "cancel"
    /\ listLock = "free"
    /\ list' = set_task_state(list, target, "Cancelled", None).list
    /\ ret' = [op |-> "cancel", val |-> set_task_state(list, target, "Cancelled", None).res]
    /\ pc' = "idle"
    /\ target' = 0
    /\ UNCHANGED <<timer, inflight, timerLock, listLock, cur>>

AddTask ==
    \/ AddTaskCall(TaskInputs, MaxTasks)
    \/ AddTaskCheck(Executors)
    \/ AddTaskLockTimer
    \/ AddTaskLockList
    \/ AddTaskRegister
    \/ AddTaskPush

Next ==
    \/ AddTask
    \/ \E r \in 1..Len(timer) : FireStart(r, MaxInst)
    \/ \E r \in 1..Len(timer) : FireFinish(r)
    \/ \E id \in 1..(MaxId + 1) : CancelCall(id)
    \/ Cancel

Spec == Init /\ [][Next]_vars

\* The timer fires every armed registration; every execute() returns and
\* a callback that asks for the registry lock again and again gets it
\* (strong fairness: add_task calls may take the lock infinitely often);
\* an add_task call that has begun runs to its return.
Fairness ==
    /\ WF_vars(AddTaskCheck(Executors))
    /\ WF_vars(AddTaskLockTimer)
    /\ WF_vars(AddTaskLockList)
    /\ WF_vars(AddTaskRegister)
    /\ WF_vars(AddTaskPush)
    /\ \A r \in 1..MaxTasks : SF_vars(r <= Len(timer) /\ FireStart(r, MaxInst))
    /\ \A r \in 1..MaxTasks : SF_vars(r <= Len(timer) /\ FireFinish(r))

\* The same operations on a registry of at most SoloTasks tasks
AddTaskSolo ==
    \/ AddTaskCall(TaskInputs, SoloTasks)
    \/ AddTaskCheck(Executors)
    \/ AddTaskLockTimer
    \/ AddTaskLockList
    \/ AddTaskRegister
    \/ AddTaskPush

NextSolo ==
    \/ AddTaskSolo
    \/ \E r \in 1..Len(timer) : FireStart(r, MaxInst)
    \/ \E r \in 1..Len(timer) : FireFinish(r)
    \/ \E id \in 1..(MaxId + 1) : CancelCall(id)
    \/ Cancel

SpecSolo == Init /\ [][NextSolo]_vars

\* The locks: a caller that adds interval tasks with a job that succeeds,
\* and tries a cron string that does not parse and an empty name, on a
\* registry of at most SoloTasks tasks, with the timer and cancels
AddTaskLock ==
    \/ AddTaskCall(LockTaskInputs, SoloTasks)
    \/ AddTaskCheck(CapExecutors)
    \/ AddTaskLockTimer
    \/ AddTaskLockList
    \/ AddTaskRegister
    \/ AddTaskPush

NextLock ==
    \/ AddTaskLock
    \/ \E r \in 1..Len(timer) : FireStart(r, MaxInst)
    \/ \E r \in 1..Len(timer) : FireFinish(r)
    \/ \E id \in 1..(MaxId + 1) : CancelCall(id)
    \/ Cancel

SpecLock == Init /\ [][NextLock]_vars

\* SpecLock with the scheduling of Fairness, and a cancel that has begun
\* runs to its return
FairLock == SpecLock /\ Fairness /\ WF_vars(Cancel)

\* The timer and add_task alone: no caller cancels a task
NextRun ==
    \/ AddTask
    \/ \E r \in 1..Len(timer) : FireStart(r, MaxInst)
    \/ \E r \in 1..Len(timer) : FireFinish(r)

SpecRun == Init /\ [][NextRun]_vars

FairSpec == SpecRun /\ Fairness

\* Several tasks side by side: a caller that adds interval tasks with an
\* automatic id and once tasks with the id MaxId, on a registry of at most
\* MaxTasks tasks, with the timer and cancels
AddTaskFrame ==
    \/ AddTaskCall(FrameTaskInputs, MaxTasks)
    \/ AddTaskCheck(CapExecutors)
    \/ AddTaskLockTimer
    \/ AddTaskLockList
    \/ AddTaskRegister
    \/ AddTaskPush

NextFrame ==
    \/ AddTaskFrame
    \/ \E r \in 1..Len(timer) : FireStart(r, MaxInst)
    \/ \E r \in 1..Len(timer) : FireFinish(r)
    \/ \E id \in 1..(MaxId + 1) : CancelCall(id)
    \/ Cancel

SpecFrame == Init /\ [][NextFrame]_vars

\* Many tasks that are due together: CapTasks interval tasks, each with at
\* most one callback in flight, no cancellation.
AddTaskCap ==
    \/ AddTaskCall(CapTaskInputs, CapTasks)
    \/ AddTaskCheck(CapExecutors)
    \/ AddTaskLockTimer
    \/ AddTaskLockList
    \/ AddTaskRegister
    \/ AddTaskPush

NextCap ==
    \/ AddTaskCap
    \/ \E r \in 1..Len(timer) : FireStart(r, 1)
    \/ \E r \in 1..Len(timer) : FireFinish(r)

SpecCap == Init /\ [][NextCap]_vars

----------------------------------------------------------------------------
(* Properties *)

\* task i of the registry is the task of registration i: both sequences
\* grow together, by AddTaskRegister followed by AddTaskPush
Tasks == 1..Len(list)

Edges == {<<"Idle", "Running">>, <<"Running", "Idle">>,
          <<"Idle", "Cancelled">>, <<"Running", "Cancelled">>}

\* C1: a task's state changes only along Idle->Running, Running->Idle,
\* Idle->Cancelled and Running->Cancelled, and no firing sets Running a
\* task that is Running already.
C1_OnlyAllowedEdges ==
    [][ /\ \A i \in Tasks :
             \/ list'[i].state = list[i].state
             \/ <<list[i].state, list'[i].state>> \in Edges
        /\ \A r \in Tasks :
             inflight'[r] > inflight[r]
                => \A i \in Tasks :
                      i = FindTask(list, timer[r].task_id) => list[i].state # "Running"
      ]_vars

\* C2: at most one execute() call of a task is in flight at any instant.
C2_NoSelfConcurrency ==
    \A r \in 1..Len(inflight) : inflight[r] <= 1

\* C3: a task that is Cancelled while a callback of it is mid-execution
\* stays Cancelled in every later step, the wrapper's final write included.
C3_CancelledStays ==
    [][ \A i \in Tasks :
          (list[i].state = "Cancelled" /\ inflight[i] > 0)
             => list'[i].state = "Cancelled"
      ]_vars

\* the inputs C4 names: empty name, Once/Interval of zero duration, empty cron
InvalidInput(task) ==
    \/ task.name = ""
    \/ task.schedule.kind \in {"Once", "Interval"} /\ task.schedule.dur = 0
    \/ task.schedule.kind = "Cron" /\ task.schedule.cron = ""

ValidationErrors ==
    {"task name is empty", "task interval must be greater than 0", "task cron is empty"}

\* the id the next add_task call with id = 0 would get
NextAutoId == build_task(TaskInput(0, "update", Interval(1000), 0), Len(list)).task.id

\* C4: add_task with an empty name, a zero Once/Interval duration or an
\* empty cron string returns an error at validation and changes neither the
\* registry nor the timer, takes no lock, and leaves the next auto id as
\* it was.
C4_InvalidAddLeavesRegistry ==
    [][ /\ (pc = "idle" /\ pc' = "check")
           => /\ list' = list /\ timer' = timer /\ inflight' = inflight
              /\ NextAutoId' = NextAutoId
        /\ (pc = "check" /\ InvalidInput(cur.task) /\ pc' # pc)
           => /\ pc' = "idle"
              /\ ret'.op = "add" /\ ret'.val \in ValidationErrors
              /\ list' = list /\ timer' = timer /\ inflight' = inflight
              /\ timerLock' = timerLock /\ listLock' = listLock
              /\ NextAutoId' = NextAutoId
      ]_vars

C4_Witness ==
    /\ pc = "idle"
    /\ ret = [op |-> "add", val |-> "task interval must be greater than 0"]
    /\ Len(list) = 1
    /\ NextAutoId = 2

\* C5: an add with id = 0 gets an id greater than every id in the
\* registry, and a task added to the registry never has the id of a task
\* that is in it.
C5_AutoIdFresh ==
    [][ /\ (pc = "check" /\ pc' = "built" /\ cur.task.id = 0)
           => \A i \in Tasks : cur'.task.id > list[i].id
        /\ (pc = "registered" /\ pc' = "idle")
           => \A i \in Tasks : list'[Len(list')].id # list[i].id
      ]_vars

\* C6: at most MaxParallel tasks are Running, and at most MaxParallel
\* callbacks are in flight, over all registered tasks.
C6_GlobalCap ==
    /\ Cardinality({i \in Tasks : list[i].state = "Running"}) <= MaxParallel
    /\ Cardinality({r \in 1..Len(inflight) : inflight[r] > 0}) <= MaxParallel

\* C7: a task with a callback in flight is later Idle with last_run set
\* (or has been cancelled).
C7_FiringCompletes ==
    \A i \in 1..MaxTasks :
        (i <= Len(inflight) /\ inflight[i] > 0)
            ~> (/\ i <= Len(list)
                /\ \/ list[i].state = "Cancelled"
                   \/ list[i].state = "Idle" /\ list[i].last_run # None)

\* C8: a Once task whose single firing has finished is not Running, and
\* unless it is Cancelled its last_run is set.
C8_OnceFiresOnce ==
    \A i \in Tasks :
        (list[i].schedule.kind = "Once" /\ ~timer[i].armed /\ inflight[i] = 0)
            => /\ list[i].state # "Running"
               /\ list[i].state = "Cancelled" \/ list[i].last_run # None

\* C9: when a callback of an Interval or Cron task returns from a failed
\* execute(), the task (unless Cancelled meanwhile) is Idle with last_run
\* the Err of that job, stays registered, and no other task changes.
C9_FailureAbsorbed ==
    [][ \A r \in Tasks :
          (/\ inflight'[r] < inflight[r]
           /\ timer[r].executor.err # ""
           /\ list[r].schedule.kind \in {"Interval", "Cron"})
            => /\ list[r].state # "Cancelled"
                  => /\ list'[r].state = "Idle"
                     /\ list'[r].last_run = Some(<<Now, ResErr(timer[r].executor.err)>>)
               /\ timer'[r].armed
               /\ \A j \in Tasks : j # r => list'[j] = list[j]
      ]_vars

\* C10: validation lets through every task with a non-empty name and a
\* Once or Interval duration greater than 0.
C10_PositiveDurationAccepted ==
    [][ (/\ pc = "check" /\ pc' # pc
         /\ cur.task.name # ""
         /\ cur.task.schedule.kind \in {"Once", "Interval"}
         /\ cur.task.schedule.dur > 0)
            => pc' = "built"
      ]_vars

\* the tasks of the registry that carry the id
WithId(id) == {i \in Tasks : list[i].id = id}

\* C11: setting the state Cancelled for an id that no task of the registry
\* carries returns the not-found error and changes no task; setting it for
\* an id whose tasks are all Cancelled already returns success and leaves
\* the registry exactly as it was.  Neither touches the timer.
C11_CancelUnknownOrCancelled ==
    [][ (pc = "cancel" /\ pc' = "idle")
          => /\ WithId(target) = {}
                  => /\ ret' = [op |-> "cancel", val |-> "NotFound"]
                     /\ list' = list
             /\ (/\ WithId(target) # {}
                 /\ \A i \in WithId(target) : list[i].state = "Cancelled")
                  => /\ ret' = [op |-> "cancel", val |-> "Ok"]
                     /\ list' = list
             /\ timer' = timer /\ inflight' = inflight ]_vars

\* an unknown id was refused while the registry held a task that had run
C11_Witness ==
    /\ pc = "idle"
    /\ ret = [op |-> "cancel", val |-> "NotFound"]
    /\ Len(list) = 1 /\ list[1].last_run # None

AddTaskFailures == {"failed to build a task", "failed to add a task to scheduler"}

\* C12: add_task is atomic on failure after validation.  No step of a call
\* before the push changes the list; a call whose timer task cannot be
\* built (a cron string that does not parse) or whose registration the
\* timer rejects returns that error with list, timer and callbacks as they
\* were and both locks free; outside of the one step between registration
\* and push every registration of the timer has its task in the list, so
\* nothing can fire for the task of a failed call.
C12_FailedAddIsAtomic ==
    [][ /\ (pc \in {"check", "built", "timerLocked", "listLocked"} /\ pc' # pc)
           => list' = list
        /\ (pc = "listLocked" /\ pc' = "idle")
           => /\ ret'.op = "add" /\ ret'.val \in AddTaskFailures
              /\ list' = list /\ timer' = timer /\ inflight' = inflight
              /\ timerLock' = "free" /\ listLock' = "free"
        /\ (pc = "listLocked" /\ pc' # pc /\ spawn_routine(cur.builder) = "Err")
           => /\ pc' = "idle"
              /\ ret' = [op |-> "add", val |-> "failed to build a task"]
        /\ pc' # "registered"
           => /\ Len(timer') = Len(list')
              /\ \A r \in 1..Len(timer') : timer'[r].task_id = list'[r].id ]_vars

\* a call with a cron string that does not parse has failed while the
\* registry held a task
C12_Witness ==
    /\ pc = "idle"
    /\ ret = [op |-> "add", val |-> "failed to build a task"]
    /\ Len(list) = 1 /\ Len(timer) = 1

\* the registrations with a callback between its two set_task_state calls,
\* that is with execute() in flight
Executing == {r \in 1..Len(inflight) : inflight[r] > 0}

\* C13: the lock of the registry is never held while execute() runs.  In
\* every state with an execute() in flight the write lock is free or held
\* by add_task, never by a firing, so an add_task that waits for the lock,
\* a cancel and the state update of any other firing can take their step
\* as soon as add_task does not hold it.
C13_LockFreeWhileExecuting ==
    Executing # {}
        => /\ listLock \in {"free", "adder"}
           /\ pc = "timerLocked" => ENABLED AddTaskLockList
           /\ pc = "cancel" => ENABLED Cancel
           /\ listLock = "free"
                => \A q \in Executing : ENABLED FireFinish(q)

\* add_task has taken the write lock while the job of task 1 executes
C13_Witness ==
    /\ pc = "listLocked" /\ listLock = "adder"
    /\ Len(list) = 1 /\ inflight[1] > 0 /\ list[1].state = "Running"

\* C14: last_run is never written while the task is, or ends up, Running:
\* every step that changes the last_run of a task is the step that moves
\* that task from Running to a state other than Running, and a step that
\* sets the state of a task to Running or Cancelled leaves its last_run
\* unchanged.
C14_LastRunOnlyOnLeavingRunning ==
    [][ \A i \in Tasks :
          /\ list'[i].last_run # list[i].last_run
               => /\ list[i].state = "Running"
                  /\ list'[i].state # "Running"
          /\ (list'[i].state # list[i].state
              /\ list'[i].state \in {"Running", "Cancelled"})
               => list'[i].last_run = list[i].last_run ]_vars

\* an execution of a Running task has finished and has been recorded
C14_Witness ==
    /\ Len(list) = 1 /\ inflight[1] = 0
    /\ list[1].state = "Idle" /\ list[1].last_run # None

\* C15: the ids of the tasks of the registry are positive and pairwise
\* different, whatever mix of supplied and automatic ids the calls used.
C15_IdsUniquePositive ==
    /\ \A i \in Tasks : list[i].id >= 1
    /\ \A i, j \in Tasks : i # j => list[i].id # list[j].id

\* C16: every completed execution records its own outcome: in the step in
\* which a wrapped execution of the task of registration r finishes, the
\* last_run of that task becomes the time and the outcome of that
\* execution, whatever other firings did in between.
C16_OutcomeRecorded ==
    [][ \A r \in Tasks :
          inflight'[r] < inflight[r]
             => list'[r].last_run = Some(<<Now, RunResult(timer[r].executor)>>) ]_vars

\* C17: registration and insertion are atomic with respect to firings.
\* The set_task_state(.., Running, ..) of every firing finds the task of
\* its registration in the list, and execute() is never in flight for a
\* registration whose task is not in the list.
C17_FiringFindsItsTask ==
    [][ \A r \in 1..Len(inflight) :
          /\ inflight'[r] > inflight[r]
               => /\ r \in Tasks
                  /\ list[r].id = timer[r].task_id
                  /\ set_task_state(list, timer[r].task_id, "Running", None).res = "Ok"
                  /\ list'[FindTask(list, timer[r].task_id)].state = "Running"
          /\ inflight'[r] > 0 => r \in 1..Len(list') ]_vars

\* the first firing of a task has started after add_task returned Ok
C17_Witness ==
    /\ pc = "idle" /\ ret = [op |-> "add", val |-> "Ok"]
    /\ Len(list) = 1 /\ inflight[1] = 1
    /\ list[1].state = "Running" /\ list[1].last_run = None

\* C18: no deadlock.  add_task takes the timer lock and then the write
\* lock of the list, callbacks take only the lock of the list and give it
\* back before execute(): in every reachable state the call in progress
\* can take its next step, a lock that is held is released again, and
\* every add_task call (and every cancel) that has begun returns.
C18_NoDeadlock ==
    /\ [](pc # "idle"
            => ENABLED (\/ AddTaskCheck(Executors) \/ AddTaskLockTimer
                        \/ AddTaskLockList \/ AddTaskRegister
                        \/ AddTaskPush \/ Cancel))
    /\ (timerLock # "free") ~> (timerLock = "free")
    /\ (listLock # "free") ~> (listLock = "free")
    /\ (pc # "idle") ~> (pc = "idle" /\ ret.val # "pending")

\* add_task holds the timer lock and asks for the lock of the list while
\* the job of task 1 executes
C18_Witness ==
    /\ pc = "timerLocked" /\ timerLock = "adder" /\ listLock = "free"
    /\ Len(list) = 1 /\ inflight[1] > 0

\* the tasks of the registry that a step changes
Changed == {i \in Tasks : list'[i] # list[i]}

\* C19: frame.  A set_task_state call changes at most one task, a task
\* with the id it was called for, and of that task only state and
\* last_run; every other task and the fields id, name, schedule, executor,
\* created_at and next_run of every task stay as they are.  No step
\* removes a task or shortens the registry, and the registry grows only
\* in the step in which add_task returns Ok, by exactly the new task.
C19_Frame ==
    [][ /\ Len(list') \in {Len(list), Len(list) + 1}
        /\ \A i \in Tasks :
              [list'[i] EXCEPT !.state = list[i].state,
                               !.last_run = list[i].last_run] = list[i]
        /\ Cardinality(Changed) <= 1
        /\ \A i \in Changed :
              \/ pc = "cancel" /\ list[i].id = target
              \/ \E r \in 1..Len(inflight) :
                    inflight'[r] # inflight[r] /\ list[i].id = timer[r].task_id
        /\ (pc = "cancel" \/ inflight' # inflight) => Len(list') = Len(list)
        /\ Len(list') = Len(list) + 1
              <=> (pc = "registered" /\ ret' = [op |-> "add", val |-> "Ok"])
        /\ Len(list') = Len(list) + 1
              => /\ list'[Len(list')] = cur.task
                 /\ Changed = {} ]_vars

\* two tasks with different ids side by side, one Running and one
\* Cancelled
C19_Witness ==
    /\ Len(list) = 2 /\ list[1].id # list[2].id
    /\ list[1].state = "Running" /\ inflight[1] > 0
    /\ list[2].state = "Cancelled" /\ list[2].last_run # None

=============================================================================
